---- MODULE Spec2Model ----
(***************************************************************************)
(* Model of src/flappy_biry.py: the game loop of "Flappy Biry".            *)
(*                                                                         *)
(* Units.  bird_y and bird_velocity are Python floats that only ever hold  *)
(* multiples of 0.5 (gravity = 0.5, jump_power = -9, start 400).  They are *)
(* kept here as integers counting half pixels (Scale = 2 per pixel), which *)
(* is exact.  pygame.Rect truncates a float coordinate to an integer; that *)
(* truncation is Trunc.  Pipe coordinates and times are plain integers.    *)
(*                                                                         *)
(* One iteration of "while running" is: the KEYDOWN handler once per       *)
(* queued SPACE press (action KeySpace), then the game logic, the drawing  *)
(* and clock.tick (action Tick).  A QUIT event only ends the loop after    *)
(* the current iteration and touches no game state; it is not an action.   *)
(***************************************************************************)
EXTENDS Integers, Sequences, FiniteSets

\* ---- program constants (src/flappy_biry.py) ----
SCREEN_WIDTH == 600
SCREEN_HEIGHT == 800
GROUND_HEIGHT == 100
PIPE_WIDTH == 80
PIPE_GAP == 200
PIPE_SPAWN_INTERVAL == 1500
PIPE_SPEED == 3

Scale == 2
bird_width == 40
bird_height == 30
bird_x == 100
gravity == 1
jump_power == -18
ground_y == SCREEN_HEIGHT - GROUND_HEIGHT
min_top_pipe_height == 50
max_top_pipe_height == SCREEN_HEIGHT - GROUND_HEIGHT - PIPE_GAP - 50

\* ---- bounds of the model ----
\* Duration of a frame as clock.tick(60) paces it, in ms.
FrameMs == 17
\* Duration of a stalled frame (longer than PIPE_SPAWN_INTERVAL), in ms.
StallMs == 1501
\* Frames explored in one run (from a start to the frame that ends it).
MaxFrames == 232
\* Only the first MaxStalls frames of a run may stall, one right after another.
MaxStalls == 2
\* Largest number of consecutive frames spent on a non-playing screen.
MaxIdle == 1
\* Values random.randint(min_top_pipe_height, max_top_pipe_height) is sampled
\* at: both ends of its range and the middle.
TopHeights ==
    {min_top_pipe_height,
     (min_top_pipe_height + max_top_pipe_height) \div 2,
     max_top_pipe_height}
\* Velocities (half pixels per tick) at which the player presses SPACE in a
\* run: at rest, when falling as fast as a jump rises, and when falling faster.
JumpVels == {0, -(jump_power + gravity), 22}

\* The program reads the clock only in current_time - last_pipe_spawn_time;
\* since_spawn is that difference, get_ticks() - last_pipe_spawn_time, in ms.
VARIABLES
    bird_y,                 \* half pixels
    bird_velocity,          \* half pixels per tick
    pipes,                  \* sequence of pipe records, in list order
    score,
    game_active,
    since_spawn,            \* get_ticks() - last_pipe_spawn_time, ms
    screen,                 \* which view the last frame drew
    spawned,                \* history: pipes created since the last (re)start
    frames,                 \* history: frames since the last (re)start
    quiet,                  \* history: frames of the run since the last SPACE press
    through,                \* history: pipes of the run met with the bird in the gap
    grazed,                 \* history: pipes of the run met with the bird off the gap
    idle                    \* history: consecutive frames with game_active false

vars == <<bird_y, bird_velocity, pipes, score, game_active,
          since_spawn, screen, spawned, frames, quiet, through, grazed, idle>>

\* ---- pygame.Rect ----
\* int() of a float held in half pixels: truncation toward zero.
Trunc(h) == IF h >= 0 THEN h \div Scale ELSE -((-h) \div Scale)

Rect(x, y, w, h) == [left |-> x, top |-> y, right |-> x + w, bottom |-> y + h]

\* pygame.Rect.colliderect: the interiors overlap (touching edges do not).
colliderect(a, b) ==
    /\ a.left < b.right
    /\ a.right > b.left
    /\ a.top < b.bottom
    /\ a.bottom > b.top

\* ---- functions of the program ----
\* create_pipe: appends the record for the drawn top height; born is history.
create_pipe_front(ps, top_pipe_height, n) ==
    <<[x |-> SCREEN_WIDTH,
       top_height |-> top_pipe_height,
       bottom_height |-> SCREEN_HEIGHT - GROUND_HEIGHT - top_pipe_height - PIPE_GAP,
       passed |-> FALSE,
       born |-> n]>> \o ps

create_pipe_no_ground(ps, top_pipe_height, n) ==
    Append(ps,
           [x |-> SCREEN_WIDTH,
            top_height |-> top_pipe_height,
            bottom_height |-> SCREEN_HEIGHT - top_pipe_height - PIPE_GAP,
            passed |-> FALSE,
            born |-> n])

create_pipe(ps, top_pipe_height, n) ==
    Append(ps,
           [x |-> SCREEN_WIDTH,
            top_height |-> top_pipe_height,
            bottom_height |-> SCREEN_HEIGHT - GROUND_HEIGHT - top_pipe_height - PIPE_GAP,
            passed |-> FALSE,
            born |-> n])

\* move_pipes: every pipe moves left, then the off-screen ones are dropped.
MovedPipe(p) == [p EXCEPT !.x = p.x - PIPE_SPEED]

Keep_until_bird(p) == p.x + PIPE_WIDTH > bird_x

Keep_left_edge(p) == p.x > 0

Keep(p) == p.x + PIPE_WIDTH > 0

move_pipes(ps) ==
    LET moved == [i \in 1..Len(ps) |-> MovedPipe(ps[i])]
    IN  SelectSeq(moved, Keep)

GroundHit_strict(bird_rect) == bird_rect.bottom > ground_y

GroundHit(bird_rect) == bird_rect.bottom >= ground_y

PipeHit_bottom_only(bird_rect, pipe) ==
    colliderect(bird_rect,
                Rect(pipe.x, SCREEN_HEIGHT - pipe.bottom_height - GROUND_HEIGHT,
                     PIPE_WIDTH, pipe.bottom_height))

PipeHit(bird_rect, pipe) ==
    LET top_pipe_rect == Rect(pipe.x, 0, PIPE_WIDTH, pipe.top_height)
        bottom_pipe_rect ==
            Rect(pipe.x, SCREEN_HEIGHT - pipe.bottom_height - GROUND_HEIGHT,
                 PIPE_WIDTH, pipe.bottom_height)
    IN  colliderect(bird_rect, top_pipe_rect) \/ colliderect(bird_rect, bottom_pipe_rect)

check_collision_ground_only(bird_rect, ps) == GroundHit(bird_rect)

check_collision(bird_rect, ps) ==
    \/ GroundHit(bird_rect)
    \/ \E i \in 1..Len(ps) : PipeHit(bird_rect, ps[i])

Scores_right_edge(bird_rect, pipe) ==
    pipe.x + PIPE_WIDTH < bird_rect.right /\ ~pipe.passed

Scores_again(bird_rect, pipe) == pipe.x + PIPE_WIDTH < bird_rect.left

Scores(bird_rect, pipe) == pipe.x + PIPE_WIDTH < bird_rect.left /\ ~pipe.passed

\* update_score: the list with the newly passed pipes marked ...
ScoredPipes(bird_rect, ps) ==
    [i \in 1..Len(ps) |->
        IF Scores(bird_rect, ps[i]) THEN [ps[i] EXCEPT !.passed = TRUE] ELSE ps[i]]

\* ... and the score it returns.
update_score(bird_rect, ps, current_score) ==
    current_score + Cardinality({i \in 1..Len(ps) : Scores(bird_rect, ps[i])})

\* The view the drawing section picks.
Drawn_game_over_always(active, sc) == IF active THEN "play" ELSE "game_over"

Drawn(active, sc) ==
    IF active THEN "play" ELSE IF sc > 0 THEN "game_over" ELSE "start"

\* Gravity, integration and the top clamp (the first lines of the game logic).
NextVelocity_no_gravity(v) == v

NextVelocity(v) == v + gravity

NextY(y, v1) == y + v1

ClampedY(y1) == IF y1 < 0 THEN 0 ELSE y1

ClampedVelocity_keep(y1, v1) == v1

ClampedVelocity(y1, v1) == IF y1 < 0 THEN 0 ELSE v1

\* History only: the pipes of ps whose span x..x+80 overlaps the bird's span
\* 100..140 while the bird's box top..top+30 lies inside the gap (inside = TRUE)
\* or does not (inside = FALSE).
Met(ps, top, inside) ==
    {ps[i].born : i \in
        {k \in 1..Len(ps) :
            /\ ps[k].x < 140 /\ ps[k].x + 80 > 100
            /\ inside = (/\ top >= ps[k].top_height
                         /\ top + 30 <= ps[k].top_height + 200)}}

\* ---- initial state: the module-level assignments ----
Init ==
    /\ bird_y = (SCREEN_HEIGHT \div 2) * Scale
    /\ bird_velocity = 0
    /\ pipes = <<>>
    /\ score = 0
    /\ game_active = FALSE
    /\ since_spawn = 0
    /\ screen = "none"
    /\ spawned = 0
    /\ frames = 0
    /\ quiet = 0
    /\ through = {}
    /\ grazed = {}
    /\ idle = 0

\* ---- KEYDOWN / K_SPACE handler ----
StartGame_keep_pipes ==
    /\ ~game_active
    /\ bird_y' = (SCREEN_HEIGHT \div 2) * Scale
    /\ bird_velocity' = 0
    /\ score' = 0
    /\ game_active' = TRUE
    /\ since_spawn' = 0
    /\ spawned' = 0
    /\ frames' = 0
    /\ quiet' = 0
    /\ through' = {}
    /\ grazed' = {}
    /\ idle' = 0
    /\ UNCHANGED <<screen, pipes>>

StartGame_keep_timer ==
    /\ ~game_active
    /\ bird_y' = (SCREEN_HEIGHT \div 2) * Scale
    /\ bird_velocity' = 0
    /\ pipes' = <<>>
    /\ score' = 0
    /\ game_active' = TRUE
    /\ spawned' = 0
    /\ frames' = 0
    /\ quiet' = 0
    /\ through' = {}
    /\ grazed' = {}
    /\ idle' = 0
    /\ UNCHANGED <<screen, since_spawn>>

StartGame ==
    /\ ~game_active
    /\ bird_y' = (SCREEN_HEIGHT \div 2) * Scale
    /\ bird_velocity' = 0
    /\ pipes' = <<>>
    /\ score' = 0
    /\ game_active' = TRUE
    /\ since_spawn' = 0
    /\ spawned' = 0
    /\ frames' = 0
    /\ quiet' = 0
    /\ through' = {}
    /\ grazed' = {}
    /\ idle' = 0
    /\ UNCHANGED screen

Jump_add ==
    /\ game_active
    /\ bird_velocity \in JumpVels
    /\ bird_velocity' = bird_velocity + jump_power
    /\ quiet' = 0
    /\ UNCHANGED <<bird_y, pipes, score, game_active, since_spawn,
                   screen, spawned, frames, through, grazed, idle>>

Jump ==
    /\ game_active
    /\ bird_velocity \in JumpVels
    /\ bird_velocity' = jump_power
    /\ quiet' = 0
    /\ UNCHANGED <<bird_y, pipes, score, game_active, since_spawn,
                   screen, spawned, frames, through, grazed, idle>>

KeySpace == StartGame \/ Jump

\* ---- one frame: game logic, drawing, clock.tick ----
\* The frame lasts dt ms; top is the value random.randint returns if asked.
ActiveFrame(dt, top) ==
    LET v1 == NextVelocity(bird_velocity)
        y1 == NextY(bird_y, v1)
        y2 == ClampedY(y1)
        v2 == ClampedVelocity(y1, v1)
        spawn == since_spawn > PIPE_SPAWN_INTERVAL
        ps1 == IF spawn THEN create_pipe(pipes, top, spawned + 1) ELSE pipes
        ps2 == move_pipes(ps1)
        bird_rect == Rect(bird_x, Trunc(y2), bird_width, bird_height)
        hit == check_collision(bird_rect, ps2)
        sc == update_score(bird_rect, ps2, score)
    IN  /\ game_active
        /\ frames < MaxFrames
        /\ dt = StallMs =>
             frames < MaxStalls /\ (frames = 0 \/ since_spawn > PIPE_SPAWN_INTERVAL)
        /\ spawn \/ top = min_top_pipe_height
        /\ bird_y' = y2
        /\ bird_velocity' = v2
        /\ since_spawn' = (IF spawn THEN 0 ELSE since_spawn) + dt
        /\ spawned' = IF spawn THEN spawned + 1 ELSE spawned
        /\ game_active' = ~hit
        /\ pipes' = ScoredPipes(bird_rect, ps2)
        /\ score' = sc
        /\ screen' = Drawn(~hit, sc)
        /\ frames' = frames + 1
        /\ quiet' = quiet + 1
        /\ through' = through \cup Met(ps2, Trunc(y2), TRUE)
        /\ grazed' = grazed \cup Met(ps2, Trunc(y2), FALSE)
        /\ idle' = 0

IdleFrame(dt) ==
    /\ ~game_active
    /\ idle < MaxIdle
    /\ idle' = idle + 1
    /\ since_spawn' = since_spawn + dt
    /\ screen' = Drawn(game_active, score)
    /\ UNCHANGED <<bird_y, bird_velocity, pipes, score, game_active, spawned, frames,
                   quiet, through, grazed>>

Tick ==
    \E dt \in {FrameMs, StallMs} :
        \/ \E top \in TopHeights : ActiveFrame(dt, top)
        \/ IdleFrame(dt)

Next == KeySpace \/ Tick

Spec == Init /\ [][Next]_vars

\* ---- vocabulary of the properties ----
\* The mode as the specification derives it from game_active and score.
Mode ==
    IF game_active THEN "active" ELSE IF score > 0 THEN "game_over" ELSE "not_started"

\* A step that is one frame (Tick); every other step is a handled SPACE press.
FrameStep == frames' = frames + 1 \/ idle' = idle + 1

SpaceStep == ~FrameStep

\* The bird's bounding box is x 100..140, BoxTop..BoxTop+30.
BoxTop == bird_y \div 2

OnGround == BoxTop + 30 >= 700

OverlapsTop(p) == p.x < 140 /\ p.x + 80 > 100 /\ BoxTop < p.top_height

OverlapsBottom(p) ==
    p.x < 140 /\ p.x + 80 > 100 /\ BoxTop + 30 > 700 - p.bottom_height /\ BoxTop < 700

Collided ==
    OnGround \/ \E i \in 1..Len(pipes) : OverlapsTop(pipes[i]) \/ OverlapsBottom(pipes[i])

\* The pipe with spawn number b was in the list, with its flag set, before the step.
PrevPassed(b) == \E i \in 1..Len(pipes) : pipes[i].born = b /\ pipes[i].passed

\* Pipes that after the step's movement lie left of the bird and were not scored.
NewlyLeft ==
    {j \in 1..Len(pipes') : pipes'[j].x + 80 < 100 /\ ~PrevPassed(pipes'[j].born)}

\* ---- C1 ----
\* C1: the derived mode starts as not-started and only ever changes
\* not-started -> active (SPACE), active -> game-over (collision) or
\* game-over -> active (SPACE).
C1_OnlyThreeTransitions ==
    /\ Mode = "not_started"
    /\ [][Mode' # Mode =>
            \/ Mode = "not_started" /\ Mode' = "active" /\ SpaceStep
            \/ Mode = "active" /\ Mode' = "game_over" /\ FrameStep /\ Collided'
            \/ Mode = "game_over" /\ Mode' = "active" /\ SpaceStep]_vars

\* ---- C2 ----
\* C2: a frame of a run after whose movement the bird's box meets a pipe or the
\* ground ends with game_active false, and a frame that starts with game_active
\* false moves neither the bird nor any pipe and leaves game_active false.
C2_CollisionEndsRunAndFreezes ==
    [][/\ FrameStep /\ game_active /\ Collided' => ~game_active'
       /\ FrameStep /\ ~game_active =>
            /\ ~game_active'
            /\ UNCHANGED <<bird_y, bird_velocity, pipes>>]_vars

\* A run ended against a pipe (not the ground) and a further frame has passed.
C2_Witness ==
    /\ ~game_active
    /\ idle = 1
    /\ ~OnGround
    /\ \E i \in 1..Len(pipes) : OverlapsBottom(pipes[i])

\* ---- C3 ----
\* C3: a SPACE press handled while game_active is false puts the bird at 400
\* with velocity 0, empties the pipe list, zeroes the score, sets game_active
\* and sets the spawn timer to the current time.
C3_StartResetsEverything ==
    [][~game_active /\ SpaceStep =>
            /\ bird_y' = 400 * 2
            /\ bird_velocity' = 0
            /\ pipes' = <<>>
            /\ score' = 0
            /\ game_active'
            /\ since_spawn' = 0]_vars

\* A new run has just been started from the game-over screen.
C3_Witness ==
    /\ game_active
    /\ frames = 0
    /\ screen = "game_over"
    /\ pipes = <<>>
    /\ score = 0

\* ---- C4 ----
\* C4: in a frame of a run the score rises by exactly the number of pipes that
\* are now strictly left of the bird and were not flagged before, exactly those
\* pipes get the flag, a set flag stays set, and no other step changes the
\* score of a run; so a pipe is counted at most once.
C4_ScoreOncePerPipe ==
    [][/\ FrameStep /\ game_active =>
            /\ score' = score + Cardinality(NewlyLeft)
            /\ \A j \in 1..Len(pipes') :
                 pipes'[j].passed <=> (PrevPassed(pipes'[j].born) \/ j \in NewlyLeft)
       /\ FrameStep /\ ~game_active => score' = score
       /\ SpaceStep /\ game_active => score' = score /\ pipes' = pipes
       /\ Cardinality({i \in 1..Len(pipes) : pipes[i].passed}) <= score]_vars

\* Two pipes of the run have been counted and the run goes on.
C4_Witness ==
    /\ game_active
    /\ score = 2
    /\ Cardinality({i \in 1..Len(pipes) : pipes[i].passed}) = 2

\* ---- C5 ----
\* C5: every pipe in the list has top_height + PIPE_GAP + bottom_height +
\* GROUND_HEIGHT = 800 with both heights in 50..450, and a pipe keeps its
\* heights for as long as it is in the list.
C5_PipeHeights ==
    [][/\ \A j \in 1..Len(pipes') :
            /\ pipes'[j].top_height + 200 + pipes'[j].bottom_height + 100 = 800
            /\ pipes'[j].top_height \in 50..450
            /\ pipes'[j].bottom_height \in 50..450
       /\ \A i \in 1..Len(pipes) : \A j \in 1..Len(pipes') :
            pipes[i].born = pipes'[j].born =>
                /\ pipes[i].top_height = pipes'[j].top_height
                /\ pipes[i].bottom_height = pipes'[j].bottom_height]_vars

\* Pipes with the highest and the lowest gap are in the list together.
C5_Witness ==
    /\ \E i \in 1..Len(pipes) : pipes[i].top_height = 50 /\ pipes[i].bottom_height = 450
    /\ \E i \in 1..Len(pipes) : pipes[i].top_height = 450 /\ pipes[i].bottom_height = 50

\* ---- C6 ----
\* C6: bird_y is never negative; a frame of a run computes v1 = velocity + 0.5
\* and y1 = y + v1 and stores (0, 0) when y1 < 0, (y1, v1) otherwise.
C6_GravityAndClamp ==
    /\ bird_y >= 0
    /\ [][/\ bird_y' >= 0
          /\ FrameStep /\ game_active =>
               LET v1 == bird_velocity + 1
                   y1 == bird_y + v1
               IN  IF y1 < 0
                   THEN bird_y' = 0 /\ bird_velocity' = 0
                   ELSE bird_y' = y1 /\ bird_velocity' = v1]_vars

\* The bird sits at the top of the screen right after the clamp.
C6_Witness == game_active /\ frames > 0 /\ bird_y = 0 /\ bird_velocity = 0

\* ---- C7 ----
\* C7: while the game is active the bird's bottom edge is strictly above
\* ground_y, and the update of a bird at y = 670 with a velocity >= 0 flags a
\* collision whatever the pipes are.
C7_GroundTouchCollides ==
    /\ game_active => BoxTop + 30 < 700
    /\ \A v \in {0, IF bird_velocity >= 0 THEN bird_velocity ELSE 0} :
         LET v1 == NextVelocity(v)
             y1 == NextY(670 * 2, v1)
         IN  check_collision(Rect(bird_x, Trunc(ClampedY(y1)), bird_width, bird_height),
                             pipes)

\* A run has ended on the ground.
C7_Witness == ~game_active /\ OnGround /\ frames > 0

C9_MoveAndDrop ==
    [][/\ FrameStep /\ game_active =>
            \A i \in 1..Len(pipes) :
                IF pipes[i].x - 3 + 80 > 0
                THEN \E j \in 1..Len(pipes') :
                        pipes'[j].born = pipes[i].born /\ pipes'[j].x = pipes[i].x - 3
                ELSE \A j \in 1..Len(pipes') : pipes'[j].born # pipes[i].born
       /\ \A j \in 1..Len(pipes') : -80 < pipes'[j].x /\ pipes'[j].x <= 600 - 3
       /\ Len(pipes') * 3 <= 600 + 80]_vars

\* A pipe of the current run has been dropped and the run goes on.
C9_Witness == game_active /\ spawned > Len(pipes) /\ Len(pipes) > 0

\* ---- C10 ----
\* C10: the list is in spawn order, oldest first, and positions strictly
\* increase along it.
C10_SpawnOrder ==
    \A i \in 1..Len(pipes) : \A j \in 1..Len(pipes) :
        i < j => pipes[i].born < pipes[j].born /\ pipes[i].x < pipes[j].x

\* Three pipes are in the list.
C10_Witness == Len(pipes) >= 3

\* ---- C11 ----
\* C11: a frame of a run appends a pipe exactly when more than 1500 ms have
\* passed since the previous spawn or the (re)start; it appends one pipe, at
\* x = 600 (597 once the frame has moved it) with the flag unset, and restarts
\* the spawn timer at that frame's time.  Frames with game_active false append
\* nothing, and the first frame of a run never spawns.
C11_SpawnOnTimer ==
    [][/\ FrameStep /\ game_active =>
            IF since_spawn > 1500
            THEN /\ spawned' = spawned + 1
                 /\ Len(pipes') >= 1
                 /\ pipes'[Len(pipes')].born = spawned'
                 /\ pipes'[Len(pipes')].x = 600 - 3
                 /\ ~pipes'[Len(pipes')].passed
                 /\ \A j \in 1..(Len(pipes') - 1) :
                        \E i \in 1..Len(pipes) : pipes[i].born = pipes'[j].born
                 /\ since_spawn' \in {FrameMs, StallMs}
            ELSE /\ spawned' = spawned
                 /\ \A j \in 1..Len(pipes') :
                        \E i \in 1..Len(pipes) : pipes[i].born = pipes'[j].born
                 /\ since_spawn' > since_spawn
       /\ FrameStep /\ ~game_active => pipes' = pipes /\ spawned' = spawned
       /\ FrameStep /\ game_active /\ frames = 0 => pipes' = <<>>]_vars

\* The first pipe of a run with no stalled frame has just been spawned.
C11_Witness ==
    /\ game_active
    /\ frames > MaxStalls + 1
    /\ spawned = 1
    /\ Len(pipes) = 1
    /\ pipes[1].x = 600 - 3
    /\ since_spawn = FrameMs

C13_NoScoreOnCollisionFrame ==
    [][/\ FrameStep /\ game_active /\ ~game_active' => score' = score
       /\ FrameStep /\ ~game_active => score' = score]_vars

\* C13 (amended): on a frame in which a collision is detected the score rises
\* only by pipes whose right edge is already strictly left of the bird, which
\* happens only when the bird hits another pipe (never on a ground-only
\* collision); no frame that starts with game_active false changes the score.
C13_CollisionFrameCountsOnlyPassed ==
    [][/\ FrameStep /\ game_active /\ ~game_active' =>
            /\ score' = score + Cardinality(NewlyLeft)
            /\ score' # score =>
                 \E j \in 1..Len(pipes') :
                    /\ j \notin NewlyLeft
                    /\ pipes'[j].x < 140 /\ pipes'[j].x + 80 > 100
                    /\ \/ bird_y' \div 2 < pipes'[j].top_height
                       \/ bird_y' \div 2 + 30 > 700 - pipes'[j].bottom_height
       /\ FrameStep /\ ~game_active => score' = score]_vars

\* A run has just ended against one pipe on the frame that counted another.
C13_Witness ==
    /\ ~game_active
    /\ idle = 0
    /\ score >= 1
    /\ \E i \in 1..Len(pipes) : pipes[i].passed /\ pipes[i].x + 80 = 98
    /\ \E i \in 1..Len(pipes) : ~pipes[i].passed /\ OverlapsBottom(pipes[i])

\* ---- C14 ----
\* C14: the score equals the number of pipes spawned since the last (re)start
\* minus the number of listed pipes whose flag is unset; a pipe leaves the
\* list only with its flag set.
C14_ScoreConservation ==
    /\ score = spawned - Cardinality({i \in 1..Len(pipes) : ~pipes[i].passed})
    /\ [][/\ score' = spawned' - Cardinality({j \in 1..Len(pipes') : ~pipes'[j].passed})
          /\ \A i \in 1..Len(pipes) :
               (FrameStep /\ \A j \in 1..Len(pipes') : pipes'[j].born # pipes[i].born)
                   => pipes[i].passed]_vars

\* A counted pipe has left the list while uncounted ones are still in it.
C14_Witness ==
    /\ game_active
    /\ score >= 1
    /\ spawned > Len(pipes)
    /\ \E i \in 1..Len(pipes) : ~pipes[i].passed

\* ---- C15 ----
\* C15: a run does not outlast 70 frames without a SPACE press (the bird falls
\* and hits the ground or a pipe), and a run that gets no press at all from
\* the reset state (y = 400, velocity 0) ends on its 33rd frame at the latest.
C15_RunEndsWithoutInput ==
    /\ game_active => quiet < 70
    /\ game_active /\ quiet = frames /\ bird_velocity = frames => frames < 33

\* A run has ended after 33 frames in which SPACE was never pressed.
C15_Witness ==
    /\ ~game_active
    /\ frames = 33
    /\ quiet = 33
    /\ bird_velocity = 33

\* ---- C16 ----
\* C16: a pipe whose flag is set has overlapped the bird's span, and on every
\* frame of the run on which it did the bird's box lay inside its gap (at or
\* below top_height, so never above the top pipe).
C16_ScoredOnlyThroughGap ==
    \A i \in 1..Len(pipes) :
        pipes[i].passed => pipes[i].born \in through /\ pipes[i].born \notin grazed

\* A pipe with the lowest gap has been counted and the run goes on.
C16_Witness ==
    /\ game_active
    /\ \E i \in 1..Len(pipes) : pipes[i].passed /\ pipes[i].top_height = 450

====
